---- MODULE Spec2Model ----
(***************************************************************************)
(* Model of WebpackEntrypointListerPlugin (src/index.ts): the "done" hook  *)
(* that walks the entry point -> chunk -> file graph of a finished build,  *)
(* classifies every file, hashes each distinct file, probes the output     *)
(* directory for pre-compressed siblings and writes the manifest.          *)
(*                                                                         *)
(* Representation.                                                         *)
(*  - A file name is the tuple of its dot-separated components:            *)
(*    "app.js.map" is <<"app","js","map">>.  A suffix such as ".br" is the  *)
(*    tuple <<"br">>, and file + extension is tuple concatenation.          *)
(*  - A path is the directory followed by the file name's components:      *)
(*    pathJoin(dir, name) is <<dir>> \o name.                               *)
(*  - A JavaScript object used as a dictionary is a sequence of            *)
(*    [key, value] pairs in insertion order (the order Object.entries and  *)
(*    JSON.stringify use for non-numeric keys); obj[k] = v replaces the     *)
(*    value in place when k is present and appends the pair otherwise.     *)
(*  - The bytes of a file are an abstract content value; SHA-512 is an     *)
(*    ideal (collision-free) digest of it.  The hex digest and the SRI     *)
(*    string are different encodings of a digest and are kept apart.       *)
(***************************************************************************)
EXTENDS Integers, Sequences, FiniteSets, TLC

VARIABLES
    plugin,       \* the plugin's fields set by the constructor
    graph,        \* stats.compilation.entrypoints, in iteration order
    fs,           \* the file system: path -> [kind, content]
    pc,           \* where the hook callback is
    pos,          \* index of the next element of the nested for loops
    entrypoints,  \* the hook's local  entrypoints
    files,        \* the hook's local  files
    thrown,       \* the exception that left the hook, <<>> when none
    run,          \* number of build-completed events delivered so far
    hashLog,      \* history: every fileSha512 call of this run, [path, caller, extension]
    caught,       \* history: every exception the catch block swallowed in this run
    writes,       \* history: writeFileSync calls that succeeded in this run
    destBefore,   \* history: the destination file as it was when this run began
    produced      \* history: the manifest of every run that wrote one, [run, manifest]

vars == <<plugin, graph, fs, pc, pos, entrypoints, files, thrown, run,
          hashLog, caught, writes, destBefore, produced>>

\* Number of build-completed events the model delivers to one plugin instance.
MaxRuns == 2

-----------------------------------------------------------------------------
(* JavaScript objects as insertion-ordered dictionaries *)

RECURSIVE IndexOfKey(_, _, _)
IndexOfKey(obj, k, i) ==
    IF i > Len(obj) THEN 0
    ELSE IF obj[i].key = k THEN i
    ELSE IndexOfKey(obj, k, i + 1)

ObjHas(obj, k) == IndexOfKey(obj, k, 1) # 0

ObjGet(obj, k) == obj[IndexOfKey(obj, k, 1)].value

ObjSet(obj, k, v) ==
    LET i == IndexOfKey(obj, k, 1)
    IN  IF i = 0 THEN Append(obj, [key |-> k, value |-> v])
        ELSE [obj EXCEPT ![i] = [key |-> k, value |-> v]]

ObjKeys(obj) == [i \in 1..Len(obj) |-> obj[i].key]

RECURSIVE ObjAssign(_, _)
ObjAssign(target, source) ==
    IF source = <<>> THEN target
    ELSE ObjAssign(ObjSet(target, source[1].key, source[1].value), Tail(source))

-----------------------------------------------------------------------------
(* Paths, the file system, hashing *)

OutputPath == "dist"
OtherDir == "manifests"

pathJoin(prefix, file) == <<prefix>> \o file

Absent == [kind |-> "absent", content |-> <<>>]

\* readFileSync(path): the file's content, or the error it throws.
ReadFile(path) ==
    IF fs[path].kind = "file" THEN [ok |-> TRUE, content |-> fs[path].content[1]]
    ELSE IF fs[path].kind = "absent" THEN [ok |-> FALSE, error |-> "ENOENT"]
    ELSE [ok |-> FALSE, error |-> "EACCES"]

\* statSync(path): throws only when nothing is at the path.
StatFile(path) ==
    IF fs[path].kind = "absent" THEN [ok |-> FALSE, error |-> "ENOENT"]
    ELSE [ok |-> TRUE, size |-> fs[path].content[1].size]

HexDigest(content) == [encoding |-> "hex", digest |-> content]

fileSha512(path) ==
    LET r == ReadFile(path)
    IN  IF r.ok THEN [ok |-> TRUE, hash |-> HexDigest(r.content)]
        ELSE r

\* ssri.fromHex(hex, "sha512").toString(): "sha512-" followed by the base64
\* encoding of the digest the hex string encodes.
sriFromHex(hex) == [encoding |-> "sha512-base64", digest |-> hex.digest]

-----------------------------------------------------------------------------
(* Content types *)

\* A pattern  /\.(a|b)\.(c)$/  is the sequence of the alternatives of each of its
\* trailing components: << {"a","b"}, {"c"} >>.  It matches a name that ends with
\* a dot followed by those components.
Test(pattern, fileName) ==
    /\ Len(fileName) > Len(pattern)
    /\ \A i \in 1..Len(pattern) :
          fileName[Len(fileName) - Len(pattern) + i] \in pattern[i]

DefaultFileTypes ==
    << [key |-> "application/javascript", value |-> << {"js"} >>],
       [key |-> "text/css",               value |-> << {"css"} >>],
       [key |-> "image/svg+xml",          value |-> << {"svg"} >>],
       [key |-> "image/png",              value |-> << {"png"} >>],
       [key |-> "text/plain",             value |-> << {"js", "css"}, {"map"} >>] >>

DefaultVariants ==
    << [key |-> "br",   value |-> <<"br">>],
       [key |-> "gzip", value |-> <<"gz">>] >>

DefaultOutputFilename == <<"webpack-entrypoints", "json">>

\* An optional option is <<>> when it is not given and <<v>> when it is v.
Construct(options) ==
    [ outputDir      |-> options.outputDir,
      outputFilename |-> IF options.outputFilename = <<>> THEN DefaultOutputFilename
                         ELSE options.outputFilename[1],
      fileTypes      |-> ObjAssign(IF options.fileTypes = <<>> THEN DefaultFileTypes
                                   ELSE options.fileTypes[1],
                                   IF options.additionalFileTypes = <<>> THEN <<>>
                                   ELSE options.additionalFileTypes[1]),
      variants       |-> IF options.variants = <<>> THEN DefaultVariants
                         ELSE options.variants[1] ]

RECURSIVE FirstMatch(_, _, _)
FirstMatch(fileTypes, file, i) ==
    IF i > Len(fileTypes) THEN "application/octet-stream"
    ELSE IF Test(fileTypes[i].value, file) THEN fileTypes[i].key
    ELSE FirstMatch(fileTypes, file, i + 1)

RECURSIVE LastMatch(_, _, _)
LastMatch(fileTypes, file, i) ==
    IF i = 0 THEN "application/octet-stream"
    ELSE IF Test(fileTypes[i].value, file) THEN fileTypes[i].key
    ELSE LastMatch(fileTypes, file, i - 1)

\* Faulty: the last matching pattern wins.
_determineContentType_LastMatch(file) ==
    LastMatch(plugin.fileTypes, file, Len(plugin.fileTypes))

_determineContentType(file) == FirstMatch(plugin.fileTypes, file, 1)

-----------------------------------------------------------------------------
(* Variant probing *)

\* Faulty: a variant that is not on disk gets a placeholder entry.
computeVariant_Placeholder(variants, prefix, file, variantName, extension, knownHash) ==
    LET fullPath == pathJoin(prefix, file \o extension)
        stats    == StatFile(fullPath)
        fresh    == fileSha512(fullPath)
        call     == [path |-> fullPath, caller |-> "computeVariant",
                     extension |-> extension]
        hash     == IF knownHash # <<>> THEN knownHash[1] ELSE fresh.hash
    IN  IF ~stats.ok
        THEN [variants |-> ObjSet(variants, variantName,
                                  [file |-> <<>>, size |-> 0, hash |-> <<>>]),
              hashed |-> <<>>, caught |-> <<stats.error>>]
        ELSE IF knownHash = <<>> /\ ~fresh.ok
        THEN [variants |-> variants, hashed |-> <<call>>, caught |-> <<fresh.error>>]
        ELSE [variants |-> ObjSet(variants, variantName,
                                  [file |-> file \o extension, size |-> stats.size,
                                   hash |-> hash]),
              hashed |-> IF knownHash # <<>> THEN <<>> ELSE <<call>>,
              caught |-> <<>>]

\* The result of one call: the variants dictionary after it, the fileSha512
\* calls it made and the exceptions its catch block swallowed.  knownHash is
\* <<>> when the argument is not passed; a hex digest is never the empty
\* string, so  knownHash || fileSha512(fullPath)  hashes exactly then.  The
\* try block encloses statSync and fileSha512 alike.
computeVariant(variants, prefix, file, variantName, extension, knownHash) ==
    LET fullPath == pathJoin(prefix, file \o extension)
        stats    == StatFile(fullPath)
        fresh    == fileSha512(fullPath)
        call     == [path |-> fullPath, caller |-> "computeVariant",
                     extension |-> extension]
    IN  IF ~stats.ok
        THEN [variants |-> variants, hashed |-> <<>>, caught |-> <<stats.error>>]
        ELSE IF knownHash # <<>>
        THEN [variants |-> ObjSet(variants, variantName,
                                  [file |-> file \o extension, size |-> stats.size,
                                   hash |-> knownHash[1]]),
              hashed |-> <<>>, caught |-> <<>>]
        ELSE IF ~fresh.ok
        THEN [variants |-> variants, hashed |-> <<call>>, caught |-> <<fresh.error>>]
        ELSE [variants |-> ObjSet(variants, variantName,
                                  [file |-> file \o extension, size |-> stats.size,
                                   hash |-> fresh.hash]),
              hashed |-> <<call>>, caught |-> <<>>]

\* The loop over Object.entries(this.variants), from entry i on.
RECURSIVE ProbeVariants(_, _, _)
ProbeVariants(acc, file, i) ==
    IF i > Len(plugin.variants) THEN acc
    ELSE LET r == computeVariant(acc.variants, OutputPath, file,
                                 plugin.variants[i].key, plugin.variants[i].value, <<>>)
         IN  ProbeVariants([variants |-> r.variants,
                            hashed   |-> acc.hashed \o r.hashed,
                            caught   |-> acc.caught \o r.caught], file, i + 1)

\* Faulty: the identity probe is not given the digest and hashes again.
BuildFileRecord_Rehash(file, fileContentType, contentHash) ==
    LET identity == computeVariant(<<>>, OutputPath, file, "identity", <<>>, <<>>)
        all      == ProbeVariants(identity, file, 1)
    IN  [ record |-> [contentType |-> fileContentType,
                      variants    |-> all.variants,
                      sriHash     |-> sriFromHex(contentHash)],
          hashed |-> all.hashed,
          caught |-> all.caught ]

\* Faulty: the identity variant is probed after the configured ones.
BuildFileRecord_IdentityLast(file, fileContentType, contentHash) ==
    LET configured == ProbeVariants([variants |-> <<>>, hashed |-> <<>>,
                                     caught |-> <<>>], file, 1)
        identity   == computeVariant(configured.variants, OutputPath, file,
                                     "identity", <<>>, <<contentHash>>)
    IN  [ record |-> [contentType |-> fileContentType,
                      variants    |-> identity.variants,
                      sriHash     |-> sriFromHex(contentHash)],
          hashed |-> configured.hashed \o identity.hashed,
          caught |-> configured.caught \o identity.caught ]

\* The body of  if (files[file] === undefined) { ... }  once the base file is
\* hashed: the identity probe, the configured probes, the file record.
BuildFileRecord(file, fileContentType, contentHash) ==
    LET identity == computeVariant(<<>>, OutputPath, file, "identity", <<>>,
                                   <<contentHash>>)
        all      == ProbeVariants(identity, file, 1)
    IN  [ record |-> [contentType |-> fileContentType,
                      variants    |-> all.variants,
                      sriHash     |-> sriFromHex(contentHash)],
          hashed |-> all.hashed,
          caught |-> all.caught ]

-----------------------------------------------------------------------------
(* The inputs: build graphs, output directories, plugin options *)

MainJs    == <<"main", "js">>
MainCss   == <<"main", "css">>
SharedJs  == <<"shared", "js">>
AppJs     == <<"app", "js">>
AppCss    == <<"app", "css">>
AppJsMap  == <<"app", "js", "map">>
LogoSvg   == <<"logo", "svg">>
DataBin   == <<"data", "bin">>
MainJsBr  == <<"main", "js", "br">>
MainJsGz  == <<"main", "js", "gz">>

\* One entry point, one chunk.
GraphMain ==
    << [name |-> "main", chunks |-> << <<MainJs, MainCss>> >>] >>

\* Entry points that share files, a file listed twice, an empty chunk and an
\* entry point without chunks.
GraphShared ==
    << [name |-> "a",     chunks |-> << <<SharedJs, MainJs>>, <<>> >>],
       [name |-> "b",     chunks |-> << <<SharedJs>>, <<MainCss, SharedJs>> >>],
       [name |-> "empty", chunks |-> <<>>] >>

\* Files of every content type.
GraphAssets ==
    << [name |-> "assets", chunks |-> << <<AppJs, AppCss, AppJsMap>>,
                                         <<LogoSvg, DataBin, MainJs>> >>] >>

Graphs == {GraphMain, GraphShared, GraphAssets}

RECURSIVE Flatten(_)
Flatten(chunks) ==
    IF chunks = <<>> THEN <<>> ELSE Head(chunks) \o Flatten(Tail(chunks))

\* The nested for loops of the hook, unrolled: entering an entry point, then
\* one element per file of each of its chunks, in order.
RECURSIVE Traversal(_)
Traversal(g) ==
    IF g = <<>> THEN <<>>
    ELSE << [kind |-> "entrypoint", name |-> Head(g).name, file |-> <<>>] >>
         \o [i \in 1..Len(Flatten(Head(g).chunks)) |->
                [kind |-> "file", name |-> Head(g).name,
                 file |-> Flatten(Head(g).chunks)[i]]]
         \o Traversal(Tail(g))

BaseFiles == {MainJs, MainCss, SharedJs, AppJs, AppCss, AppJsMap, LogoSvg, DataBin}
Suffixes == {<<"br">>, <<"gz">>}
OutputFilenames == {DefaultOutputFilename, MainJsGz}

Paths ==
    {pathJoin(OutputPath, f) : f \in BaseFiles}
    \cup {pathJoin(OutputPath, f \o s) : f \in BaseFiles, s \in Suffixes}
    \cup {pathJoin(d, n) : d \in {OutputPath, OtherDir}, n \in OutputFilenames}

\* The bytes a build step left at a path, and what a file holding them is.
BuildOutput(name) == [source |-> name, json |-> <<>>, size |-> 100 * Len(name)]
FileOf(content) == [kind |-> "file", content |-> <<content>>]
\* Something stat finds and read cannot read: a directory, a file without
\* read permission.
Unreadable(name) == [kind |-> "unreadable", content |-> <<BuildOutput(name)>>]

\* An output directory: the base files but those missing, the compressed
\* siblings given, and the paths that cannot be read.
OutputDirectory(missing, siblings, unreadable) ==
    [p \in Paths |->
        IF p[1] # OutputPath THEN Absent
        ELSE IF Tail(p) \in unreadable THEN Unreadable(Tail(p))
        ELSE IF Tail(p) \in (BaseFiles \ missing) \cup siblings
             THEN FileOf(BuildOutput(Tail(p)))
        ELSE Absent]

Troubles ==
    { [missing |-> {},        unreadable |-> {}],
      [missing |-> {MainCss}, unreadable |-> {}],
      [missing |-> {},        unreadable |-> {SharedJs}],
      [missing |-> {},        unreadable |-> {MainJsBr}],
      [missing |-> {},        unreadable |-> {MainJsGz}] }

CustomFileTypes ==
    << [key |-> "application/json",       value |-> << {"map"} >>],
       [key |-> "text/plain",             value |-> << {"js", "css"}, {"map"} >>],
       [key |-> "application/javascript", value |-> << {"js", "map"} >>] >>

AdditionalFileTypes ==
    << [key |-> "image/svg+xml",    value |-> << {"svg", "bin"} >>],
       [key |-> "application/wasm", value |-> << {"bin"} >>] >>

CustomVariants ==
    << [key |-> "gzip",     value |-> <<"gz">>],
       [key |-> "identity", value |-> <<"br">>] >>

Options ==
    [ outputDir           : {<<>>, <<OtherDir>>},
      outputFilename      : {<<>>, <<MainJsGz>>},
      fileTypes           : {<<>>, <<CustomFileTypes>>},
      additionalFileTypes : {<<>>, <<AdditionalFileTypes>>},
      variants            : {<<>>, <<CustomVariants>>} ]

-----------------------------------------------------------------------------
(* The hook *)

\* Faulty: the outputDir option is ignored.
OutputDirOf_Ignored(p) == OutputPath

\* const outputDir = this.outputDir || stats.compilation.outputOptions.path
OutputDirOf(p) == IF p.outputDir = <<>> THEN OutputPath ELSE p.outputDir[1]

OutputFile == pathJoin(OutputDirOf(plugin), plugin.outputFilename)

Manifest == [entrypoints |-> entrypoints, files |-> files]

\* JSON.stringify: the document, with a length that grows with what it lists.
Stringify(m) ==
    [source |-> <<>>, json |-> <<m>>,
     size |-> 30 + 40 * Len(m.entrypoints) + 300 * Len(m.files)]

Init ==
    /\ \E o \in Options : plugin = Construct(o)
    /\ graph \in Graphs
    /\ \E t \in Troubles, siblings \in SUBSET {MainJsBr, MainJsGz} :
          fs = OutputDirectory(t.missing, siblings, t.unreadable)
    /\ pc = "idle"
    /\ pos = 1
    /\ entrypoints = <<>>
    /\ files = <<>>
    /\ thrown = <<>>
    /\ run = 0
    /\ hashLog = <<>>
    /\ caught = <<>>
    /\ writes = 0
    /\ destBefore = Absent
    /\ produced = <<>>

\* The build pipeline fires "done": the callback starts with empty locals.
BuildCompleted ==
    /\ pc \in {"idle", "done", "failed"}
    /\ run < MaxRuns
    /\ run' = run + 1
    /\ pc' = "loop"
    /\ pos' = 1
    /\ entrypoints' = <<>>
    /\ files' = <<>>
    /\ thrown' = <<>>
    /\ hashLog' = <<>>
    /\ caught' = <<>>
    /\ writes' = 0
    /\ destBefore' = fs[OutputFile]
    /\ UNCHANGED <<plugin, graph, fs, produced>>

AtElement(kind) ==
    /\ pc = "loop"
    /\ pos <= Len(Traversal(graph))
    /\ Traversal(graph)[pos].kind = kind

\* for (let [name, epdata] of ...entries()): a fresh record under the name.
EnterEntrypoint ==
    /\ AtElement("entrypoint")
    /\ entrypoints' = ObjSet(entrypoints, Traversal(graph)[pos].name,
                             [stylesheets |-> <<>>, scripts |-> <<>>])
    /\ pos' = pos + 1
    /\ UNCHANGED <<plugin, graph, fs, pc, files, thrown, run, hashLog, caught,
                   writes, destBefore, produced>>

\* Faulty: a file is listed once per entry point.
PushFile_Deduplicated(entrypoint, fileContentType, file) ==
    IF fileContentType = "application/javascript"
    THEN IF \E i \in 1..Len(entrypoint.scripts) : entrypoint.scripts[i] = file
         THEN entrypoint
         ELSE [entrypoint EXCEPT !.scripts = Append(@, file)]
    ELSE IF fileContentType = "text/css"
    THEN [entrypoint EXCEPT !.stylesheets = Append(@, file)]
    ELSE entrypoint

\* The two list pushes of the loop body.
PushFile(entrypoint, fileContentType, file) ==
    IF fileContentType = "application/javascript"
    THEN [entrypoint EXCEPT !.scripts = Append(@, file)]
    ELSE IF fileContentType = "text/css"
    THEN [entrypoint EXCEPT !.stylesheets = Append(@, file)]
    ELSE entrypoint

\* Faulty: the record is built again at every reference.
NeedsRecord_EveryReference(file) == TRUE

\* Faulty: files that are neither script nor stylesheet get no record (the
\* behaviour of the older sources, src/unnamed/part_000:62-68).
NeedsRecord_ClassifiedOnly(file) ==
    /\ ~ObjHas(files, file)
    /\ _determineContentType(file) \in {"application/javascript", "text/css"}

\* if (files[file] === undefined)
NeedsRecord(file) == ~ObjHas(files, file)

\* The body of  for (let file of chunk.files).
ProcessFile ==
    /\ AtElement("file")
    /\ LET name            == Traversal(graph)[pos].name
           file            == Traversal(graph)[pos].file
           fileContentType == _determineContentType(file)
           fullPath        == pathJoin(OutputPath, file)
           contentHash     == fileSha512(fullPath)
           call            == [path |-> fullPath, caller |-> "apply",
                               extension |-> <<>>]
           built           == BuildFileRecord(file, fileContentType, contentHash.hash)
       IN  /\ entrypoints' = ObjSet(entrypoints, name,
                                    PushFile(ObjGet(entrypoints, name),
                                             fileContentType, file))
           /\ IF ~NeedsRecord(file)
              THEN /\ pos' = pos + 1
                   /\ UNCHANGED <<pc, files, thrown, hashLog, caught>>
              ELSE IF ~contentHash.ok
              THEN /\ pc' = "failed"
                   /\ thrown' = <<contentHash.error>>
                   /\ hashLog' = Append(hashLog, call)
                   /\ UNCHANGED <<pos, files, caught>>
              ELSE /\ files' = ObjSet(files, file, built.record)
                   /\ hashLog' = Append(hashLog, call) \o built.hashed
                   /\ caught' = caught \o built.caught
                   /\ pos' = pos + 1
                   /\ UNCHANGED <<pc, thrown>>
    /\ UNCHANGED <<plugin, graph, fs, run, writes, destBefore, produced>>

\* Faulty: the write also happens after an exception left the loops (a finally).
LoopsFinished_OrThrown ==
    \/ pc = "loop" /\ pos > Len(Traversal(graph))
    \/ pc = "failed" /\ writes = 0

\* Control reaches the statements after the loops.
LoopsFinished == pc = "loop" /\ pos > Len(Traversal(graph))

\* writeFileSync(outputFile, JSON.stringify({ entrypoints, files })) after the
\* loops; it throws when the destination cannot be written.
WriteManifest ==
    /\ LoopsFinished
    /\ IF fs[OutputFile].kind = "unreadable"
       THEN /\ pc' = "failed"
            /\ thrown' = <<"EACCES">>
            /\ UNCHANGED <<fs, writes, produced>>
       ELSE /\ fs' = [fs EXCEPT ![OutputFile] = FileOf(Stringify(Manifest))]
            /\ writes' = writes + 1
            /\ produced' = Append(produced, [run |-> run, manifest |-> Manifest])
            /\ pc' = "done"
            /\ UNCHANGED thrown
    /\ UNCHANGED <<plugin, graph, pos, entrypoints, files, run, hashLog, caught,
                   destBefore>>

Next ==
    \/ BuildCompleted
    \/ EnterEntrypoint
    \/ ProcessFile
    \/ WriteManifest

Spec == Init /\ [][Next]_vars

-----------------------------------------------------------------------------
(* Vocabulary of the properties *)

IsScript(f) == _determineContentType(f) = "application/javascript"
IsStylesheet(f) == _determineContentType(f) = "text/css"

\* The file names the graph references, and those of one entry point in order.
ReferencedFiles ==
    {Traversal(graph)[i].file :
        i \in {j \in 1..Len(Traversal(graph)) : Traversal(graph)[j].kind = "file"}}

\* The fileSha512 calls of this run on the base file f itself.
BaseHashCalls(f) ==
    {i \in 1..Len(hashLog) :
        /\ hashLog[i].path = pathJoin(OutputPath, f)
        /\ hashLog[i].caller = "apply" \/ hashLog[i].extension = <<>>}

AllBaseHashCalls == UNION {BaseHashCalls(f) : f \in BaseFiles}

\* The suffixes the configuration gives a variant name.
ConfiguredSuffixes(variantName) ==
    {plugin.variants[i].value :
        i \in {j \in 1..Len(plugin.variants) : plugin.variants[j].key = variantName}}

OnDisk(name) == fs[pathJoin(OutputPath, name)].kind # "absent"
Readable(name) == fs[pathJoin(OutputPath, name)].kind = "file"

VariantKeys(f) == ObjKeys(ObjGet(files, f).variants)
HasVariant(f, variantName) == ObjHas(ObjGet(files, f).variants, variantName)
Variant(f, variantName) == ObjGet(ObjGet(files, f).variants, variantName)
RecordedFiles == {files[i].key : i \in 1..Len(files)}

\* The destination the configuration names.
ConfiguredDestination ==
    pathJoin(IF plugin.outputDir = <<>> THEN OutputPath ELSE plugin.outputDir[1],
             plugin.outputFilename)

\* The paths a build reads or stats.
PathsRead ==
    {pathJoin(OutputPath, f) : f \in ReferencedFiles}
    \cup {pathJoin(OutputPath, f \o plugin.variants[i].value) :
             f \in ReferencedFiles, i \in 1..Len(plugin.variants)}

-----------------------------------------------------------------------------
(* C1 *)

-----------------------------------------------------------------------------
(* C2 *)

\* C2 as stated: the identity variant's hash is identical to the record's
\* sriHash, and no second hash of the base file is computed for it.
C2_IdentityHashEqualsSriHash ==
    /\ \A f \in RecordedFiles :
          HasVariant(f, "identity") => Variant(f, "identity").hash = ObjGet(files, f).sriHash
    /\ \A i \in 1..Len(hashLog) : hashLog[i].caller = "apply" \/ hashLog[i].extension # <<>>

\* C2 amended: the identity entry that describes the base file holds the hex
\* encoding of the digest whose SRI encoding ("sha512-" and base64) is the
\* record's sriHash; the two strings differ; the digest is the one of the base
\* file's bytes and is not computed a second time for the identity entry.  An
\* identity entry that a configured variant named "identity" replaced names the
\* suffixed file instead.
C2_IdentityHashEncodesSriDigest ==
    /\ \A f \in RecordedFiles :
          /\ HasVariant(f, "identity")
          /\ ObjGet(files, f).sriHash.encoding = "sha512-base64"
          /\ ObjGet(files, f).sriHash.digest = fs[pathJoin(OutputPath, f)].content[1]
          /\ \/ /\ Variant(f, "identity").file = f
                /\ Variant(f, "identity").hash.encoding = "hex"
                /\ sriFromHex(Variant(f, "identity").hash) = ObjGet(files, f).sriHash
                /\ Variant(f, "identity").hash # ObjGet(files, f).sriHash
             \/ \E s \in ConfiguredSuffixes("identity") :
                   Variant(f, "identity").file = f \o s
    /\ \A i \in 1..Len(hashLog) : hashLog[i].caller = "apply" \/ hashLog[i].extension # <<>>

\* A record whose identity entry describes the base file, in a written manifest.
C2_Witness ==
    /\ pc = "done"
    /\ \E f \in RecordedFiles :
          /\ Variant(f, "identity").file = f
          /\ sriFromHex(Variant(f, "identity").hash) = ObjGet(files, f).sriHash
    /\ Cardinality(AllBaseHashCalls) = Len(files)

-----------------------------------------------------------------------------
(* C3 *)

\* The scenario of the claim: main.js, main.css and main.js.br on disk, the
\* default variants.
ScenarioMain ==
    /\ graph = GraphMain
    /\ plugin.variants = DefaultVariants
    /\ Readable(MainJs) /\ Readable(MainCss) /\ Readable(MainJsBr)
    /\ ~OnDisk(MainJsGz)
    /\ ~OnDisk(MainCss \o <<"br">>) /\ ~OnDisk(MainCss \o <<"gz">>)

ScenarioMainKeys ==
    (ScenarioMain /\ pc = "done") =>
        /\ VariantKeys(MainJs) = <<"identity", "br">>
        /\ VariantKeys(MainCss) = <<"identity">>

\* C3 as stated: for every record and every configured name -> suffix pair whose
\* file is not on disk, the record has no key of that name.
C3_AbsentVariantHasNoKey ==
    /\ \A f \in RecordedFiles : \A i \in 1..Len(plugin.variants) :
          ~OnDisk(f \o plugin.variants[i].value) => ~HasVariant(f, plugin.variants[i].key)
    /\ ScenarioMainKeys

\* C3 amended: the same for every configured name other than "identity"; a
\* variant configured under the name "identity" whose file is not on disk leaves
\* the key "identity" in place, describing the base file.  A failure never comes
\* from an absent variant: the run that fails failed at a base file or at the
\* write.
C3_AbsentVariantAddsNothing ==
    /\ \A f \in RecordedFiles : \A i \in 1..Len(plugin.variants) :
          ~OnDisk(f \o plugin.variants[i].value) =>
              IF plugin.variants[i].key = "identity"
              THEN HasVariant(f, "identity") /\ Variant(f, "identity").file = f
              ELSE ~HasVariant(f, plugin.variants[i].key)
    /\ \A f \in RecordedFiles : \A k \in {"br", "gzip", "identity"} :
          HasVariant(f, k) =>
              /\ Variant(f, k).file \in {f} \cup {f \o s : s \in Suffixes}
              /\ Variant(f, k).hash.encoding = "hex"
    /\ ScenarioMainKeys
    /\ pc = "failed" =>
          \/ pos > Len(Traversal(graph)) /\ fs[OutputFile].kind = "unreadable"
          \/ /\ hashLog # <<>>
             /\ hashLog[Len(hashLog)].caller = "apply"
             /\ fs[hashLog[Len(hashLog)].path].kind # "file"

\* The scenario, run to the end: variants were absent, the catch block
\* swallowed their ENOENT, and the manifest was written.
C3_Witness ==
    /\ ScenarioMain
    /\ pc = "done"
    /\ VariantKeys(MainJs) = <<"identity", "br">>
    /\ \E i \in 1..Len(caught) : caught[i] = "ENOENT"

-----------------------------------------------------------------------------
(* C4 *)

IdentityOverrides(f) == {s \in ConfiguredSuffixes("identity") : Readable(f \o s)}

-----------------------------------------------------------------------------
(* C5 *)

ListedFiles(manifest) ==
    UNION { {manifest.entrypoints[i].value.scripts[j] :
                j \in 1..Len(manifest.entrypoints[i].value.scripts)}
            \cup {manifest.entrypoints[i].value.stylesheets[j] :
                j \in 1..Len(manifest.entrypoints[i].value.stylesheets)} :
            i \in 1..Len(manifest.entrypoints) }

\* C5: in every manifest written, every file name the graph references, of
\* whatever content type, is a key of files, and so is every name listed in
\* scripts or stylesheets.
C5_ReferencedFilesAreKeys ==
    \A n \in 1..Len(produced) :
        /\ \A f \in ReferencedFiles : ObjHas(produced[n].manifest.files, f)
        /\ \A f \in ListedFiles(produced[n].manifest) : ObjHas(produced[n].manifest.files, f)

\* A written manifest whose files has data.bin, which no list names.
C5_Witness ==
    /\ produced # <<>>
    /\ DataBin \in ReferencedFiles
    /\ ObjHas(produced[1].manifest.files, DataBin)
    /\ DataBin \notin ListedFiles(produced[1].manifest)
    /\ ListedFiles(produced[1].manifest) # {}

-----------------------------------------------------------------------------
(* C6 *)

Matching(fileTypes, f) == {i \in 1..Len(fileTypes) : Test(fileTypes[i].value, f)}

\* The type of the matching pattern declared before every other matching one.
TypeOfFirstDeclared(fileTypes, f) ==
    IF Matching(fileTypes, f) = {} THEN "application/octet-stream"
    ELSE fileTypes[CHOOSE i \in Matching(fileTypes, f) :
                      \A j \in Matching(fileTypes, f) : i <= j].key

Classified == BaseFiles \cup {f \o s : f \in BaseFiles, s \in Suffixes}

\* C6: the classifier returns the type of the first pattern in declaration order
\* that matches and application/octet-stream when none does, every record holds
\* the classifier's answer, and with the default list app.js, app.css,
\* app.js.map, logo.svg and data.bin get the types the claim lists.
C6_FirstDeclaredPatternWins ==
    /\ \A f \in Classified :
          _determineContentType(f) = TypeOfFirstDeclared(plugin.fileTypes, f)
    /\ \A f \in RecordedFiles :
          ObjGet(files, f).contentType = TypeOfFirstDeclared(plugin.fileTypes, f)
    /\ plugin.fileTypes = DefaultFileTypes =>
          /\ _determineContentType(AppJs) = "application/javascript"
          /\ _determineContentType(AppCss) = "text/css"
          /\ _determineContentType(AppJsMap) = "text/plain"
          /\ _determineContentType(LogoSvg) = "image/svg+xml"
          /\ _determineContentType(DataBin) = "application/octet-stream"

\* A record of a file that three configured patterns match, holding the type
\* of the first, and one of a file that none matches.
C6_Witness ==
    /\ {AppJsMap, AppCss} \subseteq RecordedFiles
    /\ Cardinality(Matching(plugin.fileTypes, AppJsMap)) = 3
    /\ ObjGet(files, AppJsMap).contentType = "application/json"
    /\ Matching(plugin.fileTypes, AppCss) = {}
    /\ ObjGet(files, AppCss).contentType = "application/octet-stream"

-----------------------------------------------------------------------------
(* C7 *)

\* C7: the only exception the build swallows is the ENOENT of a configured
\* variant that is not on disk; a variant that stat finds and that cannot be
\* read makes the run fail instead of being swallowed.
C7_OnlyAbsentVariantSuppressed ==
    \A i \in 1..Len(caught) : caught[i] = "ENOENT"

-----------------------------------------------------------------------------
(* C8 *)

\* C8 as stated: the manifests written by successive runs over the same graph,
\* configuration and output directory (changed by the manifest write alone)
\* are the same.
C8_SuccessiveManifestsEqual ==
    \A m, n \in 1..Len(produced) : produced[m].manifest = produced[n].manifest

\* C8 amended: they are the same provided the manifest's destination is not one
\* of the paths the build reads: a referenced file or a referenced file plus a
\* configured variant suffix, in the build's output directory.
C8_SuccessiveManifestsEqualUnlessRead ==
    ConfiguredDestination \notin PathsRead =>
        /\ \A m, n \in 1..Len(produced) : produced[m].manifest = produced[n].manifest
        /\ \A n \in 1..Len(produced) :
              fs[ConfiguredDestination] = FileOf(Stringify(produced[n].manifest))

\* Two manifests written into the output directory itself, with file records.
C8_Witness ==
    /\ Len(produced) >= 2
    /\ produced[1].run # produced[2].run
    /\ ConfiguredDestination = pathJoin(OutputPath, DefaultOutputFilename)
    /\ produced[1].manifest.files # <<>>
    /\ produced[1].manifest = produced[2].manifest

-----------------------------------------------------------------------------
(* C9 *)

EntrypointNames == [i \in 1..Len(graph) |-> graph[i].name]

\* Every record the graph calls for is there.
AggregationComplete ==
    /\ ObjKeys(entrypoints) = EntrypointNames
    /\ RecordedFiles = ReferencedFiles
    /\ \A f \in ReferencedFiles : HasVariant(f, "identity")
    /\ \A i \in 1..Len(graph) :
          Len(entrypoints[i].value.scripts) + Len(entrypoints[i].value.stylesheets)
             = Len(SelectSeq(Flatten(graph[i].chunks),
                             LAMBDA f : IsScript(f) \/ IsStylesheet(f)))

\* A step that changes the file system is the write after the loops, of the
\* complete manifest, to the destination, the first of its run and the step
\* that ends the run.
WriteIsLast ==
    fs' # fs =>
        /\ pc = "loop" /\ pc' = "done"
        /\ pos > Len(Traversal(graph))
        /\ AggregationComplete
        /\ thrown = <<>>
        /\ writes = 0 /\ writes' = 1
        /\ fs' = [fs EXCEPT ![OutputFile] = FileOf(Stringify(Manifest))]
        /\ UNCHANGED <<entrypoints, files>>

\* A run that failed wrote nothing and left the destination as it found it; a
\* run whose graph names a base file that cannot be read fails at it.
FailureLeavesDestination ==
    /\ writes <= 1
    /\ pc = "failed" =>
          /\ thrown # <<>>
          /\ writes = 0
          /\ fs[OutputFile] = destBefore
    /\ pc = "done" =>
          /\ thrown = <<>>
          /\ \A f \in ReferencedFiles : Readable(f)
    /\ (pc = "loop" /\ pos > 1 /\ Traversal(graph)[pos - 1].kind = "file") =>
          Readable(Traversal(graph)[pos - 1].file)

\* C9: the write is the last step of a run and happens at most once, after
\* every entry point record and file record is complete; a run in which a base
\* file cannot be read fails with the exception and leaves the destination as
\* it was.
C9_WriteLastAndOnlyOnSuccess ==
    []FailureLeavesDestination /\ [][WriteIsLast]_vars

\* A run that failed at a missing base file while the destination holds the
\* file it held when the run began.
C9_Witness ==
    /\ pc = "failed"
    /\ thrown = <<"ENOENT">>
    /\ pos <= Len(Traversal(graph))
    /\ destBefore.kind = "file"
    /\ fs[OutputFile] = destBefore

-----------------------------------------------------------------------------
(* C10 *)

Occurrences(seq, x) == Cardinality({i \in 1..Len(seq) : seq[i] = x})

\* C10: in every manifest written the entry points are those of the graph in
\* its order; the scripts of each are the references to script files in chunk
\* order and file order, duplicates kept, and the stylesheets likewise; files
\* has one key for each referenced name.
C10_ListsFollowTraversal ==
    \A n \in 1..Len(produced) :
        LET m == produced[n].manifest
        IN  /\ ObjKeys(m.entrypoints) = EntrypointNames
            /\ \A i \in 1..Len(graph) :
                  /\ m.entrypoints[i].value.scripts
                        = SelectSeq(Flatten(graph[i].chunks), IsScript)
                  /\ m.entrypoints[i].value.stylesheets
                        = SelectSeq(Flatten(graph[i].chunks), IsStylesheet)
            /\ \A f \in ReferencedFiles : Occurrences(ObjKeys(m.files), f) = 1

\* shared.js, referenced by entry points a and b and twice by b: listed by
\* both, twice by b, one key in files.
C10_Witness ==
    /\ produced # <<>>
    /\ graph = GraphShared
    /\ produced[1].manifest.entrypoints[1].value.scripts = <<SharedJs, MainJs>>
    /\ produced[1].manifest.entrypoints[2].value.scripts = <<SharedJs, SharedJs>>
    /\ produced[1].manifest.entrypoints[2].value.stylesheets = <<MainCss>>
    /\ produced[1].manifest.entrypoints[3].value.scripts = <<>>
    /\ Occurrences(ObjKeys(produced[1].manifest.files), SharedJs) = 1

====
